---- MODULE Spec2Model ----
(***************************************************************************)
(* Model of src/find_roots.py: the four one-dimensional root finders       *)
(* find_root_bisection, find_root_secant, find_root_Regula_Falsi and       *)
(* find_root.  One run of the model is one call of one solver.  The        *)
(* function f is opaque: each evaluation picks a value from the range of   *)
(* f, and the graph of f evaluated so far is kept so that f stays a        *)
(* function.  Numbers are IEEE 754 doubles, as the floats of the code,     *)
(* with their subnormal numbers, infinities and NaN.                       *)
(***************************************************************************)
EXTENDS Integers, FiniteSets, Sequences

(***************************************************************************)
(* Bounds of the model.                                                    *)
(***************************************************************************)
\* Largest max_steps a call is given.
MaxStepsBound == 3

(***************************************************************************)
(* Natural numbers of any size: the sequence of base-32768 digits, least   *)
(* significant first, without a leading zero digit; 0 is <<>>.             *)
(***************************************************************************)
LimbBits == 15
Base == 32768

Abs(n) == IF n < 0 THEN -n ELSE n
Min(m, n) == IF m <= n THEN m ELSE n
Max(m, n) == IF m >= n THEN m ELSE n

\* The digits of an integer 0 <= n < 2^31.
ToLimbs(n) ==
  IF n = 0 THEN <<>>
  ELSE IF n < Base THEN <<n>>
  ELSE IF n < Base * Base THEN <<n % Base, n \div Base>>
  ELSE <<n % Base, (n \div Base) % Base, n \div (Base * Base)>>

Limb(x, i) == IF i <= Len(x) THEN x[i] ELSE 0

RECURSIVE Trim(_)
Trim(x) ==
  IF x = <<>> THEN x
  ELSE IF x[Len(x)] = 0 THEN Trim(SubSeq(x, 1, Len(x) - 1))
  ELSE x

RECURSIVE NCmpFrom(_, _, _)
NCmpFrom(x, y, i) ==
  IF i = 0 THEN 0
  ELSE IF x[i] < y[i] THEN -1
  ELSE IF x[i] > y[i] THEN 1
  ELSE NCmpFrom(x, y, i - 1)
\* -1, 0 or 1 as x < y, x = y or x > y.
NCmp(x, y) ==
  IF Len(x) < Len(y) THEN -1
  ELSE IF Len(x) > Len(y) THEN 1
  ELSE NCmpFrom(x, y, Len(x))

RECURSIVE NAddFrom(_, _, _, _)
NAddFrom(x, y, i, k) ==
  IF i > Len(x) /\ i > Len(y) THEN (IF k = 0 THEN <<>> ELSE <<k>>)
  ELSE LET t == Limb(x, i) + Limb(y, i) + k
       IN  <<t % Base>> \o NAddFrom(x, y, i + 1, t \div Base)
NAdd(x, y) == NAddFrom(x, y, 1, 0)

RECURSIVE NSubFrom(_, _, _, _)
NSubFrom(x, y, i, k) ==
  IF i > Len(x) THEN <<>>
  ELSE LET t == x[i] - Limb(y, i) - k
       IN  IF t < 0 THEN <<t + Base>> \o NSubFrom(x, y, i + 1, 1)
           ELSE <<t>> \o NSubFrom(x, y, i + 1, 0)
\* x - y for x >= y.
NSub(x, y) == Trim(NSubFrom(x, y, 1, 0))

RECURSIVE NScaleFrom(_, _, _, _)
NScaleFrom(x, k, i, carry) ==
  IF i > Len(x) THEN ToLimbs(carry)
  ELSE LET t == x[i] * k + carry
       IN  <<t % Base>> \o NScaleFrom(x, k, i + 1, t \div Base)
\* x * k for one digit 0 <= k < Base.
NScale(x, k) ==
  IF k = 0 THEN <<>> ELSE IF k = 1 THEN x ELSE NScaleFrom(x, k, 1, 0)

RECURSIVE NMulFrom(_, _, _)
NMulFrom(x, y, i) ==
  IF i > Len(y) THEN <<>>
  ELSE NAdd(NScale(x, y[i]), <<0>> \o NMulFrom(x, y, i + 1))
NMul(x, y) ==
  IF x = <<>> \/ y = <<>> THEN <<>>
  ELSE IF y = <<1>> THEN x
  ELSE IF x = <<1>> THEN y
  ELSE Trim(NMulFrom(x, y, 1))

RECURSIVE NModFrom(_, _, _, _)
NModFrom(x, p, i, r) ==
  IF i = 0 THEN r ELSE NModFrom(x, p, i - 1, (r * Base + x[i]) % p)
\* x mod p for one digit 0 < p < Base.
NMod(x, p) == NModFrom(x, p, Len(x), 0)

RECURSIVE NDivFrom(_, _, _, _)
NDivFrom(x, p, i, r) ==
  IF i = 0 THEN <<>>
  ELSE LET t == r * Base + x[i]
       IN  NDivFrom(x, p, i - 1, t % p) \o <<t \div p>>
\* x div p for one digit 0 < p < Base.
NDiv(x, p) == IF p = 1 THEN x ELSE Trim(NDivFrom(x, p, Len(x), 0))

\* The number of binary digits of a digit, and of a natural number.
LimbLen(x) ==
  IF x < 128
  THEN IF x < 8
       THEN (IF x < 2 THEN x ELSE IF x < 4 THEN 2 ELSE 3)
       ELSE (IF x < 16 THEN 4 ELSE IF x < 32 THEN 5 ELSE IF x < 64 THEN 6
             ELSE 7)
  ELSE IF x < 2048
       THEN (IF x < 256 THEN 8 ELSE IF x < 512 THEN 9 ELSE IF x < 1024 THEN 10
             ELSE 11)
       ELSE (IF x < 4096 THEN 12 ELSE IF x < 8192 THEN 13
             ELSE IF x < 16384 THEN 14 ELSE 15)
BitLen(x) ==
  IF x = <<>> THEN 0 ELSE LimbBits * (Len(x) - 1) + LimbLen(x[Len(x)])

\* x * 2^n, and x div 2^n.
ShiftLeft(x, n) ==
  IF x = <<>> \/ n = 0 THEN x
  ELSE [i \in 1..(n \div LimbBits) |-> 0] \o NScale(x, 2^(n % LimbBits))
ShiftRight(x, n) ==
  IF n \div LimbBits >= Len(x) THEN <<>>
  ELSE NDiv(SubSeq(x, n \div LimbBits + 1, Len(x)), 2^(n % LimbBits))

\* The number of trailing zero binary digits of x > 0.
RECURSIVE LimbZeros(_)
LimbZeros(x) == IF x % 2 = 1 THEN 0 ELSE 1 + LimbZeros(x \div 2)
RECURSIVE ZeroLimbs(_, _)
ZeroLimbs(x, i) == IF x[i] # 0 THEN i - 1 ELSE ZeroLimbs(x, i + 1)
TrailingZeros(x) ==
  LET z == ZeroLimbs(x, 1) IN LimbBits * z + LimbZeros(x[z + 1])

\* One digit of a long division of r by d, for r < Base * d and a divisor
\* d of at least two digits whose leading digit has its top bit set: the
\* largest q with q * d <= r, and r - q * d.  The quotient of the leading
\* digits is q or a little above it; p is q * d.
RECURSIVE QFix(_, _, _, _)
QFix(r, d, q, p) ==
  IF NCmp(p, r) > 0 THEN QFix(r, d, q - 1, NSub(p, d))
  ELSE <<q, NSub(r, p)>>
QDigit(r, d) ==
  IF NCmp(r, d) < 0 THEN <<0, r>>
  ELSE LET g == Min(Base - 1,
                    (Limb(r, Len(d) + 1) * Base + r[Len(d)]) \div d[Len(d)])
       IN  QFix(r, d, g, NScale(d, g))

\* Long division of the digits i, i-1, ..., 1 of n by d, with the remainder
\* r and the quotient digits q obtained so far: <<quotient, remainder>>.
RECURSIVE LongDiv(_, _, _, _, _)
LongDiv(n, d, i, r, q) ==
  IF i = 0 THEN <<Trim(q), r>>
  ELSE LET g == QDigit(Trim(<<n[i]>> \o r), d)
       IN  LongDiv(n, d, i - 1, g[2], <<g[1]>> \o q)

\* The leading Len(d) - 1 digits of n are below d: the division starts
\* after them.
LongDivide(n, d) ==
  IF Len(n) < Len(d) THEN <<<<>>, n>>
  ELSE LongDiv(n, d, Len(n) - Len(d) + 1,
               SubSeq(n, Len(n) - Len(d) + 2, Len(n)), <<>>)

\* <<n div d, n mod d # 0>> for d > 0.
NDivMod(n, d) ==
  IF Len(d) = 1 THEN <<NDiv(n, d[1]), NMod(n, d[1]) # 0>>
  ELSE LET t  == LimbBits - LimbLen(d[Len(d)])
           qr == LongDivide(ShiftLeft(n, t), ShiftLeft(d, t))
       IN  <<qr[1], qr[2] # <<>>>>

(***************************************************************************)
(* IEEE 754 double precision numbers, as Python's float.  A finite float   *)
(* other than 0 is <<s, m, e>>: the sign s (-1 or 1), an odd natural       *)
(* number m of at most 53 binary digits and an integer e >= -1074 with     *)
(* m * 2^e < 2^1024; it is the number s * m * 2^e.  Zero is <<0, <<>>, 0>> *)
(* (0.0 and -0.0 are one value: no operation of the code tells them apart, *)
(* a division by either raises ZeroDivisionError), the two infinities are  *)
(* <<1, <<>>, 1>> and <<-1, <<>>, 1>>, and NaN is <<3, <<>>, 0>>.  Each    *)
(* operation returns the float nearest to the exact result, ties to the    *)
(* even m, on the grid of the subnormal numbers below 2^-1022, and an      *)
(* infinity when the rounded result reaches 2^1024, as the hardware does.  *)
(***************************************************************************)
MantissaBits == 53
\* The exponent of the smallest positive float, 2^-1074, and the largest
\* number of binary digits before the point of a finite float.
MinExponent == -1074
MaxDigits == 1024

\* A local name that has not been assigned yet (Python: unbound local).
Unassigned == <<2, <<>>, 0>>

IsNum(x) == x[1] # 2

Zero == <<0, <<>>, 0>>
NaN == <<3, <<>>, 0>>
Inf(s) == <<s, <<>>, 1>>

IsNaN(x) == x[1] = 3
IsInf(x) == x[2] = <<>> /\ x[3] = 1
IsFinite(x) == x[1] = 0 \/ (x[2] # <<>> /\ IsNum(x))

\* s * m * 2^e for a natural number m, with no limit on its size.
Norm(s, m, e) ==
  IF m = <<>> \/ s = 0 THEN Zero
  ELSE IF m[1] % 2 = 1 THEN <<s, m, e>>
  ELSE LET z == TrailingZeros(m) IN <<s, ShiftRight(m, z), e + z>>

\* The same for a number on the grid of the floats: an infinity when it
\* has more than 1024 binary digits before the point.
Fit(s, m, e) ==
  IF m = <<>> THEN Zero
  ELSE IF BitLen(m) + e > MaxDigits THEN Inf(s)
  ELSE Norm(s, m, e)

\* Binary digit k (from 0) of x, and whether a digit below it is 1.
Bit(x, k) == (Limb(x, k \div LimbBits + 1) \div 2^(k % LimbBits)) % 2
AnyBelow(x, k) ==
  \/ Limb(x, k \div LimbBits + 1) % 2^(k % LimbBits) # 0
  \/ \E j \in 1..Min(k \div LimbBits, Len(x)) : x[j] # 0

\* The float nearest to s * (m + t) * 2^e, where 0 <= t < 1 and `sticky`
\* tells whether t > 0 (then m has at least 55 binary digits): the sh
\* digits beyond the 53rd, or below 2^-1074, are cut off, and the rest q
\* goes up by one when they are more than half a unit of q, or half a unit
\* and q is odd.
Round(s, m, e, sticky) ==
  LET sh == Max(e + BitLen(m) - MantissaBits, MinExponent) - e
      q  == ShiftRight(m, sh)
      up == /\ Bit(m, sh - 1) = 1
            /\ (AnyBelow(m, sh - 1) \/ sticky \/ Limb(q, 1) % 2 = 1)
  IN  IF sh <= 0 THEN Fit(s, m, e)
      ELSE IF up THEN Fit(s, NAdd(q, <<1>>), e + sh)
      ELSE Fit(s, q, e + sh)

\* The float of an integer below 2^31, and the float 2^k.
Q(n) == Norm(IF n < 0 THEN -1 ELSE 1, ToLimbs(Abs(n)), 0)
PowerOfTwo(k) == <<1, <<1>>, k>>

\* The sign of a number: -1, 0 or 1 (0 for NaN).
Sign(x) == IF x[1] \in {-1, 1} THEN x[1] ELSE 0

FNeg(x) == IF x[1] \in {-1, 1} THEN <<-x[1], x[2], x[3]>> ELSE x
FAbs(x) == IF x[1] = -1 THEN <<1, x[2], x[3]>> ELSE x

\* The exact product of two finite floats: a number s * m * 2^e whose m may
\* have more than 53 binary digits.
XMul(x, y) ==
  IF ~IsFinite(x) \/ ~IsFinite(y) THEN NaN
  ELSE IF x[1] = 0 \/ y[1] = 0 THEN Zero
  ELSE <<x[1] * y[1], NMul(x[2], y[2]), x[3] + y[3]>>

\* s1 * m1 + s2 * m2, times 2^e.
SignedSum(s1, m1, s2, m2, e) ==
  IF s1 = s2 THEN Norm(s1, NAdd(m1, m2), e)
  ELSE IF NCmp(m1, m2) = 0 THEN Zero
  ELSE IF NCmp(m1, m2) > 0 THEN Norm(s1, NSub(m1, m2), e)
  ELSE Norm(s2, NSub(m2, m1), e)

\* The exact sum and the exact difference of two such numbers.
XAdd(x, y) ==
  IF ~IsFinite(x) \/ ~IsFinite(y) THEN NaN
  ELSE IF x[1] = 0 THEN y
  ELSE IF y[1] = 0 THEN x
  ELSE SignedSum(x[1], ShiftLeft(x[2], x[3] - Min(x[3], y[3])),
                 y[1], ShiftLeft(y[2], y[3] - Min(x[3], y[3])),
                 Min(x[3], y[3]))
XSub(x, y) == XAdd(x, FNeg(y))

\* The float nearest to such a number.
Nearest(x) == IF IsFinite(x) THEN Round(x[1], x[2], x[3], FALSE) ELSE x

\* The number has one digit and an exponent far from both ends of the
\* range, so that the product of two such numbers, and their sum when the
\* exponents differ by less than a digit, is an integer below 2^31 times a
\* power of two and needs no rounding.
Short(x) ==
  x[1] = 0 \/ (x[1] \in {-1, 1} /\ Len(x[2]) = 1 /\ x[3] > -500 /\ x[3] < 450)
Scale(x, e) == IF x[1] = 0 THEN Zero ELSE <<x[1], x[2], x[3] + e>>

\* The position of the leading binary digit of x # 0.
Top(x) == BitLen(x[2]) + x[3]

\* Float `*`: NaN for 0 times an infinity.
FMulSpecial(x, y) ==
  IF ~IsNum(x) \/ ~IsNum(y) THEN Unassigned
  ELSE IF IsNaN(x) \/ IsNaN(y) THEN NaN
  ELSE IF x[1] = 0 \/ y[1] = 0
  THEN (IF IsInf(x) \/ IsInf(y) THEN NaN ELSE Zero)
  ELSE Inf(x[1] * y[1])
FMul(x, y) ==
  IF Short(x) /\ Short(y)
  THEN Scale(Q(x[1] * y[1] * Limb(x[2], 1) * Limb(y[2], 1)), x[3] + y[3])
  ELSE IF x[2] = <<>> \/ y[2] = <<>> THEN FMulSpecial(x, y)
  ELSE Nearest(XMul(x, y))

\* Float `+`: NaN for the sum of the two infinities.  A term more than 64
\* binary digits below the other does not change it.
FAddSpecial(x, y) ==
  IF ~IsNum(x) \/ ~IsNum(y) THEN Unassigned
  ELSE IF IsNaN(x) \/ IsNaN(y) THEN NaN
  ELSE IF IsInf(x) /\ IsInf(y) THEN (IF x[1] = y[1] THEN x ELSE NaN)
  ELSE IF IsInf(x) THEN x
  ELSE IF IsInf(y) THEN y
  ELSE IF x[1] = 0 THEN y
  ELSE x
FAdd(x, y) ==
  IF Short(x) /\ Short(y) /\ Abs(x[3] - y[3]) < LimbBits
  THEN LET e == Min(x[3], y[3])
       IN  Scale(Q(x[1] * Limb(x[2], 1) * 2^(x[3] - e)
                   + y[1] * Limb(y[2], 1) * 2^(y[3] - e)), e)
  ELSE IF x[2] = <<>> \/ y[2] = <<>> THEN FAddSpecial(x, y)
  ELSE IF Top(x) - Top(y) > 64 THEN x
  ELSE IF Top(y) - Top(x) > 64 THEN y
  ELSE Nearest(XAdd(x, y))

\* Float `-`.
FSub(x, y) == FAdd(x, FNeg(y))

\* Float `/` for y # 0 (a division by 0 raises ZeroDivisionError): the
\* quotient of the two m is computed to at least 55 binary digits, with the
\* remainder as the sticky bit.  NaN for the quotient of two infinities.
FDivSpecial(x, y) ==
  IF ~IsNum(x) \/ ~IsNum(y) THEN Unassigned
  ELSE IF IsNaN(x) \/ IsNaN(y) THEN NaN
  ELSE IF IsInf(x) THEN (IF IsInf(y) THEN NaN ELSE Inf(x[1] * y[1]))
  ELSE Zero
FDiv(x, y) ==
  IF x[2] = <<>> \/ y[2] = <<>> THEN FDivSpecial(x, y)
  ELSE IF y[2] = <<1>> THEN Round(x[1] * y[1], x[2], x[3] - y[3], FALSE)
  ELSE LET k  == Max(0, MantissaBits + 2 + BitLen(y[2]) - BitLen(x[2]))
           qr == NDivMod(ShiftLeft(x[2], k), y[2])
       IN  Round(x[1] * y[1], qr[1], x[3] - y[3] - k, qr[2])

\* The float of the decimal literal n/d (n and d integers, d > 0).
Dbl(n, d) == FDiv(Q(n), Q(d))

\* -1, 0 or 1 as |x| < |y|, |x| = |y| or |x| > |y|, for x, y # 0.
MagCmp(x, y) ==
  IF IsInf(x) THEN (IF IsInf(y) THEN 0 ELSE 1)
  ELSE IF IsInf(y) THEN -1
  ELSE IF x[3] = y[3] THEN NCmp(x[2], y[2])
  ELSE IF Top(x) < Top(y) THEN -1
  ELSE IF Top(x) > Top(y) THEN 1
  ELSE NCmp(ShiftLeft(x[2], x[3] - Min(x[3], y[3])),
            ShiftLeft(y[2], y[3] - Min(x[3], y[3])))

\* -1, 0 or 1 as x < y, x = y or x > y, for numbers other than NaN.
FCmp(x, y) ==
  IF x[1] # y[1] THEN (IF x[1] < y[1] THEN -1 ELSE 1)
  ELSE IF x[1] = 0 THEN 0
  ELSE x[1] * MagCmp(x, y)

\* Float comparisons; FALSE when a side is NaN.
Ordered(x, y) == x[1] \in {-1, 0, 1} /\ y[1] \in {-1, 0, 1}
FLt(x, y) == Ordered(x, y) /\ FCmp(x, y) < 0
FLe(x, y) == Ordered(x, y) /\ FCmp(x, y) <= 0
\* Python's min(x, y) and max(x, y): x unless y < x (y > x).
FMin(x, y) == IF FLt(y, x) THEN y ELSE x
FMax(x, y) == IF FLt(x, y) THEN y ELSE x

\* The floats of the literals 0.5, 0.3679 and 0.6321.
OneHalf == Dbl(1, 2)
RepairWeightA == Dbl(3679, 10000)
RepairWeightB == Dbl(6321, 10000)

(***************************************************************************)
(* Inputs of a call.  use_bisection is a Python object: the integer n is   *)
(* <<"int", n>> and the float x is <<"float", x>>.                         *)
(***************************************************************************)
PyInt(n) == <<"int", n>>
PyFloat(x) == <<"float", x>>
\* `isinstance(u, int)`
IsInt(u) == u[1] = "int"

Solvers == {"find_root_bisection", "find_root_secant",
            "find_root_Regula_Falsi", "find_root"}

\* The arguments of the calls of one family: the starting values (a, b),
\* the tolerances, the values f takes, and min_slope, contraction_factor
\* and use_bisection.
Inputs(p, xt, ft, fv, ms, cf, ub) ==
  [pairs |-> p, xtols |-> xt, ftols |-> ft, fvals |-> fv, min_slopes |-> ms,
   factors |-> cf, countdowns |-> ub]

\* 0.7071 is the default of find_root.
DefaultContractionFactor == Dbl(7071, 10000)

\* Calls on numbers of ordinary size.  Starting values: a < b, a > b and
\* a = b.
StartPairs == {<<Q(0), Q(4)>>, <<Q(4), Q(0)>>, <<Q(0), Q(0)>>}
XTols == {Q(0), Q(1), Q(5)}
FTols == {Q(0), Q(1)}
FVals == {Q(-2), Q(0), Q(1), Q(2)}
\* 0 never repairs; 1/100 repairs only a zero slope, as the default 1e-60
\* does here; 1 repairs the gentle slopes the inputs produce.
MinSlopes == {Q(0), Dbl(1, 100), Q(1)}
\* 1 is the largest contraction_factor find_root accepts; 1/4 and 5/4 are
\* out of range.
ContractionFactors ==
  {Dbl(1, 4), Dbl(3, 5), DefaultContractionFactor, Q(1), Dbl(5, 4)}
\* use_bisection as passed: integers, and the floats 1.5 and 2.0.
UseBisections ==
  {PyInt(-1), PyInt(0), PyInt(1), PyInt(2), PyInt(3), PyFloat(Dbl(3, 2)),
   PyFloat(Q(2))}
OrdinaryInputs ==
  Inputs(StartPairs, XTols, FTols, FVals, MinSlopes, ContractionFactors,
         UseBisections)

\* The arguments the other families share.
FewMinSlopes == {Q(0), Dbl(1, 100)}
FewUseBisections == {PyInt(0), PyInt(1)}

\* Calls near the largest float: a + b and b - a overflow.
\* The starting values are (2^1023, 1.5 * 2^1023) and (2^1023, -2^1023).
Huge == PowerOfTwo(1023)
HugeInputs ==
  Inputs({<<Huge, FMul(Dbl(3, 2), Huge)>>, <<Huge, FNeg(Huge)>>}, {Q(1)},
         {Dbl(1, 2)}, {Q(-2), Q(1), Q(2)}, FewMinSlopes, {Dbl(3, 5)},
         FewUseBisections)

\* Calls on a function with values so small that their products underflow.
\* f takes the values -2^-600 and 2^-600.
TinyInputs ==
  Inputs({<<Q(0), Q(4)>>}, {Q(1)}, {PowerOfTwo(-700)},
         {PowerOfTwo(-600), FNeg(PowerOfTwo(-600))}, FewMinSlopes,
         {Dbl(3, 5)}, FewUseBisections)

\* Calls on the smallest positive floats: the abscissas are subnormal.
\* The starting values are (0, 2^-1074) and (0, 2^-1072).
Least == PowerOfTwo(MinExponent)
SubnormalInputs ==
  Inputs({<<Q(0), Least>>, <<Q(0), FMul(Q(4), Least)>>}, {Least},
         {PowerOfTwo(-100)}, {FNeg(PowerOfTwo(-99)), PowerOfTwo(-100), Q(2)},
         FewMinSlopes, {DefaultContractionFactor}, FewUseBisections)

\* Calls on starting values one and four units in the last place apart.
\* (1, 1 + 2^-52) and (1, 1 + 2^-50).
LastPlaceInputs ==
  Inputs({<<Q(1), FAdd(Q(1), PowerOfTwo(-52))>>,
          <<Q(1), FAdd(Q(1), PowerOfTwo(-50))>>}, {PowerOfTwo(-60)}, {Q(1)},
         {Q(-2), Q(1), Q(2)}, FewMinSlopes, {Dbl(3, 5)}, FewUseBisections)

\* Calls with a tolerance or a contraction_factor that is not a number, and
\* with infinite starting values: nan passes the tolerance checks, and
\* every comparison with it is false.
NotANumberInputs ==
  Inputs({<<Q(0), Q(4)>>, <<Q(0), Q(0)>>, <<Inf(1), Inf(1)>>}, {NaN, Q(1)},
         {NaN, Q(1)}, {Q(-2), Q(1)}, FewMinSlopes, {Dbl(3, 5), NaN},
         FewUseBisections)

Families ==
  {OrdinaryInputs, HugeInputs, TinyInputs, SubnormalInputs, LastPlaceInputs,
   NotANumberInputs}

VARIABLES
  solver,              \* which function is called
  a0, b0,              \* the starting values as passed
  use_bisection0,      \* use_bisection as passed
  a, b,                \* the two abscissas
  xtol, ftol, both, max_steps, min_slope, contraction_factor,
  fvals,               \* the values f takes
  use_bisection,       \* find_root's bisection countdown
  f_a, f_b, c, f_c,    \* locals of the solver (Unassigned before assignment)
  steps, calls,        \* calls: evaluations of f made so far
  pc,                  \* "start", "loop" or "done"
  outcome,             \* "none", "return" or the exception's class
  site,                \* the statement that ended the call
  result,              \* the returned value
  fgraph,              \* the pairs <<x, f(x)>> evaluated so far
  c_prev,              \* ghost: b at the time the current c was generated
  c_mode,              \* ghost: the kind of step that generated c
  gens,                \* ghost: loop iterations that generated a point c
  f_a0, f_b0,          \* ghost: f at the starting values
  bracketed,           \* ghost: some iteration started with f_a*f_b < 0
  trail                \* ghost: the iterations of find_root and
                       \* find_root_secant made so far

params ==
  <<solver, a0, b0, use_bisection0, xtol, ftol, both, max_steps, min_slope,
    contraction_factor, fvals>>
locals == <<a, b, f_a, f_b, c, f_c, steps, calls, use_bisection>>
ghosts == <<c_prev, c_mode, gens, f_a0, f_b0, bracketed, trail>>
vars == <<params, locals, pc, outcome, site, result, fgraph, ghosts>>

\* The value that stands for one of f that is not evaluated.
NotDrawn == CHOOSE y \in fvals : TRUE

\* f(x) = y agrees with every evaluation made so far.
Consistent(g, x, y) == \A p \in g : p[1] = x => p[2] = y

Init ==
  /\ solver \in Solvers
  /\ \E fam \in Families :
       /\ \E p \in fam.pairs : a0 = p[1] /\ b0 = p[2]
       /\ xtol \in fam.xtols
       /\ ftol \in fam.ftols
       /\ fvals = fam.fvals
       /\ min_slope \in
            (IF solver = "find_root_bisection" THEN {Q(1)}
             ELSE fam.min_slopes)
       /\ contraction_factor \in
            (IF solver = "find_root" THEN fam.factors
             ELSE {DefaultContractionFactor})
       /\ use_bisection0 \in
            (IF solver = "find_root" THEN fam.countdowns ELSE {PyInt(0)})
  /\ a = a0 /\ b = b0
  /\ both \in BOOLEAN
  /\ max_steps \in 0..MaxStepsBound
  /\ use_bisection = use_bisection0
  /\ f_a = Unassigned /\ f_b = Unassigned
  /\ c = Unassigned /\ f_c = Unassigned
  /\ steps = 0 /\ calls = 0
  /\ pc = "start" /\ outcome = "none" /\ site = "none"
  /\ result = Unassigned
  /\ fgraph = {}
  /\ c_prev = Unassigned /\ c_mode = "none" /\ gens = 0
  /\ f_a0 = Unassigned /\ f_b0 = Unassigned
  /\ bracketed = FALSE
  /\ trail = <<>>

(***************************************************************************)
(* Shared primitives.                                                      *)
(***************************************************************************)
\* Variant of Converged: the step tolerance is compared with < instead of <=.
Converged_Strict(cc, fc, bb) ==
  IF both
  THEN FLt(FAbs(FSub(cc, bb)), xtol) /\ FLe(FAbs(fc), ftol)
  ELSE FLt(FAbs(FSub(cc, bb)), xtol) \/ FLe(FAbs(fc), ftol)

\* The convergence test of a new point cc with value fc against bb.
Converged(cc, fc, bb) ==
  IF both
  THEN FLe(FAbs(FSub(cc, bb)), xtol) /\ FLe(FAbs(fc), ftol)
  ELSE FLe(FAbs(FSub(cc, bb)), xtol) \/ FLe(FAbs(fc), ftol)

\* The call ends: a return statement or a raised exception.
Finish(kind, where, value) ==
  /\ pc' = "done"
  /\ outcome' = kind
  /\ site' = where
  /\ result' = value

Continue ==
  /\ pc' = "loop"
  /\ UNCHANGED <<outcome, site, result>>

\* Ghost: the pair (a, b) the next iteration starts with is recorded when
\* its values have strictly opposite signs.
RecordBracket ==
  bracketed' =
    (bracketed \/ (pc' = "loop" /\ Sign(f_a') * Sign(f_b') < 0))

\* `raise AlgorithmFailure(...)`: the name AlgorithmFailure is defined
\* nowhere in the module, so evaluating it raises NameError.
RaiseAlgorithmFailure(where) == Finish("NameError", where, Unassigned)


\* `xtol <= 0.0` / `ftol <= 0.0`: the tolerance is rejected.
TolInvalid(t) == FLe(t, Zero)

\* `f_a * f_b > 0.0`: the two values do not have opposite signs.
NoBracket(fa, fb) == FLt(Zero, FMul(fa, fb))

\* `abs(b - a) <= xtol`
Within(x, y) == FLe(FAbs(FSub(x, y)), xtol)

\* `abs(f_x) <= ftol`
Small(fx) == FLe(FAbs(fx), ftol)

\* Variant of InitialCheck: with both = false the distance of the starting
\* values is tested after f(a) has been evaluated.
InitialCheck_EvaluatesFirst(ya, yb) ==
  IF both
  THEN IF Within(b, a) /\ Small(ya) THEN [exit |-> "a", evals |-> 2]
       ELSE IF Within(b, a) /\ Small(yb) THEN [exit |-> "b", evals |-> 2]
       ELSE [exit |-> "none", evals |-> 2]
  ELSE IF Within(b, a) THEN [exit |-> "reject", evals |-> 1]
       ELSE IF Small(ya) THEN [exit |-> "a", evals |-> 1]
       ELSE IF Small(yb) THEN [exit |-> "b", evals |-> 2]
       ELSE [exit |-> "none", evals |-> 2]

\* The test of the two starting points that precedes the loop, given
\* f(a) = ya and f(b) = yb: which point is returned ("a", "b" or "none"),
\* whether the call is rejected, and how many evaluations of f were made.
InitialCheckAt(aa, bb, ya, yb) ==
  IF both
  THEN IF Within(bb, aa) /\ Small(ya) THEN [exit |-> "a", evals |-> 2]
       ELSE IF Within(bb, aa) /\ Small(yb)
       THEN [exit |-> "b", evals |-> 2]
       ELSE [exit |-> "none", evals |-> 2]
  ELSE IF Within(bb, aa) THEN [exit |-> "reject", evals |-> 0]
       ELSE IF Small(ya) THEN [exit |-> "a", evals |-> 1]
       ELSE IF Small(yb) THEN [exit |-> "b", evals |-> 2]
       ELSE [exit |-> "none", evals |-> 2]

\* The test applied to the current a and b.
InitialCheck(ya, yb) == InitialCheckAt(a, b, ya, yb)

\* The effect of the starting evaluations on f_a, f_b, calls and the graph.
\* f(b) is f(a) when both are evaluated and a = b; a value that is not
\* evaluated is not used.
InitialEvaluations(ya, yb, n) ==
  /\ ((n >= 2 /\ a = b) => ya = yb)
  /\ (n < 2 => yb = NotDrawn)
  /\ (n < 1 => ya = NotDrawn)
  /\ calls' = n
  /\ f_a' = (IF n >= 1 THEN ya ELSE Unassigned)
  /\ f_b' = (IF n >= 2 THEN yb ELSE Unassigned)
  /\ f_a0' = f_a' /\ f_b0' = f_b'
  /\ fgraph' = (IF n >= 1 THEN {<<a, ya>>} ELSE {})
                 \cup (IF n >= 2 THEN {<<b, yb>>} ELSE {})

NoEvaluations == UNCHANGED <<f_a, f_b, calls, fgraph, f_a0, f_b0>>

(***************************************************************************)
(* find_root_bisection                                                     *)
(***************************************************************************)
\* The midpoint `c= 0.5 * (a+b)`.
Midpoint(x, y) == FMul(OneHalf, FAdd(x, y))

\* `f_a * f_c < f_b * f_c`: c replaces b (else a <- b, b <- c).
BisectionReplacesB(fa, fb, fc) == FLt(FMul(fa, fc), FMul(fb, fc))

\* Lines 50-91: validation, the two starting evaluations, the bracket
\* precondition and the test of the starting points.
find_root_bisection_start ==
  /\ pc = "start" /\ solver = "find_root_bisection"
  /\ UNCHANGED <<params, a, b, c, f_c, use_bisection, c_prev, c_mode, gens>>
  /\ IF TolInvalid(xtol)
     THEN Finish("ValueError", "xtol", Unassigned)
          /\ NoEvaluations /\ UNCHANGED steps
     ELSE IF TolInvalid(ftol)
     THEN Finish("ValueError", "ftol", Unassigned)
          /\ NoEvaluations /\ UNCHANGED steps
     ELSE \E ya, yb \in fvals :
            /\ InitialEvaluations(ya, yb, 2)
            /\ IF NoBracket(ya, yb)
               THEN RaiseAlgorithmFailure("bracket") /\ UNCHANGED steps
               ELSE /\ steps' = 1
                    /\ IF both
                       THEN IF Within(b, a) /\ Small(ya)
                            THEN Finish("return", "init_a", a)
                            ELSE IF Within(b, a) /\ Small(yb)
                            THEN Finish("return", "init_b", b)
                            ELSE Continue
                       ELSE IF Small(ya)
                            THEN Finish("return", "init_a", a)
                            ELSE IF Small(yb)
                            THEN Finish("return", "init_b", b)
                            ELSE Continue
  /\ RecordBracket
  /\ UNCHANGED trail

\* Lines 94-123: one iteration of the bisection loop.
find_root_bisection_loop ==
  /\ pc = "loop" /\ solver = "find_root_bisection"
  /\ UNCHANGED <<params, use_bisection, f_a0, f_b0>>
  /\ \E y \in fvals :
       LET cc == Midpoint(a, b)
           fc == y
       IN  /\ Consistent(fgraph, cc, y)
           /\ fgraph' = fgraph \cup {<<cc, y>>}
           /\ c' = cc /\ f_c' = fc /\ calls' = calls + 1
           /\ c_prev' = b /\ c_mode' = "bisection" /\ gens' = gens + 1
           /\ IF Converged(cc, fc, b)
              THEN Finish("return", "converged", cc)
                   /\ UNCHANGED <<a, b, f_a, f_b, steps>>
              ELSE /\ IF BisectionReplacesB(f_a, f_b, fc)
                      THEN b' = cc /\ f_b' = fc /\ UNCHANGED <<a, f_a>>
                      ELSE a' = b /\ f_a' = f_b /\ b' = cc /\ f_b' = fc
                   /\ steps' = steps + 1
                   /\ IF steps + 1 > max_steps
                      THEN RaiseAlgorithmFailure("limit")
                      ELSE Continue
  /\ RecordBracket
  /\ UNCHANGED trail

NextBisection == find_root_bisection_start \/ find_root_bisection_loop
InitBisection == Init /\ solver = "find_root_bisection"
SpecBisection == InitBisection /\ [][NextBisection]_vars

(***************************************************************************)
(* The slope computation shared by find_root_secant and find_root.         *)
(***************************************************************************)
\* `b= 0.3679*a + 0.6321*b`
Repair(x, y) == FAdd(FMul(RepairWeightA, x), FMul(RepairWeightB, y))

\* `slope= (f_b - f_a)/float(b - a)` for b # a.
Slope(x, fx, y, fy) == FDiv(FSub(fy, fx), FSub(y, x))

\* `abs(slope) < min_slope`
SlopeTooSmall(s) == FLt(FAbs(s), min_slope)

SlopeResult(k, bb, fb, s, n) ==
  [kind |-> k, b |-> bb, f_b |-> fb, slope |-> s, evals |-> n]

\* The slope of (a, b) before any repair.  kind: "ok" (a usable slope),
\* "div_ba" (b - a = 0 is divided by), or "small" (the slope is too small:
\* b is repaired, and b is then the repaired b).
SlopeStart(aa, fa, bb, fb) ==
  IF FSub(bb, aa) = Zero THEN SlopeResult("div_ba", bb, fb, Zero, 0)
  ELSE LET s0 == Slope(aa, fa, bb, fb) IN
    IF ~SlopeTooSmall(s0) THEN SlopeResult("ok", bb, fb, s0, 0)
    ELSE SlopeResult("small", Repair(aa, bb), fb, s0, 0)

\* The slope after the one repair of b, when r0 asks for it; yr is f at the
\* repaired b.  kind: "ok", "div_ba", "degenerate" (break) or "stagnation"
\* (raise).
SlopeAfter(r0, aa, fa, yr) ==
  IF r0.kind # "small" THEN r0
  ELSE IF FSub(r0.b, aa) = Zero
  THEN SlopeResult("div_ba", r0.b, yr, Zero, 1)
  ELSE LET s1 == Slope(aa, fa, r0.b, yr) IN
    IF SlopeTooSmall(s1)
    THEN IF Within(r0.b, aa)
         THEN SlopeResult("degenerate", r0.b, yr, s1, 1)
         ELSE SlopeResult("stagnation", r0.b, yr, s1, 1)
    ELSE SlopeResult("ok", r0.b, yr, s1, 1)

\* `c= b - f_b/slope` for slope # 0.
NewPoint(bb, fb, s) == FSub(bb, FDiv(fb, s))

\* The graph of f after the evaluations of one iteration.
GraphAfter(r, yr, cc, yc, withC) ==
  fgraph \cup (IF r.evals = 1 THEN {<<r.b, yr>>} ELSE {})
         \cup (IF withC THEN {<<cc, yc>>} ELSE {})

\* The value drawn for f at the repaired b agrees with f as evaluated so
\* far; when no repair is made the value is not used.
DrawnRepair(r, yr) ==
  IF r.evals = 1 THEN Consistent(fgraph, r.b, yr) ELSE yr = NotDrawn

\* The value drawn for f(c) agrees with f as evaluated so far.
DrawnPoint(r, yr, cc, yc) ==
  /\ Consistent(fgraph, cc, yc)
  /\ (r.evals = 1 /\ cc = r.b => yc = yr)

\* The iteration ends before any point c is generated: a division by zero,
\* the near-zero-slope failure, or the break that leads to `return c`.
EndsWithoutPoint(r, s) ==
  \/ r.kind \in {"div_ba", "degenerate", "stagnation"}
  \/ (r.kind = "ok" /\ s = Zero)

\* `return c` after the loop: c may never have been assigned.
ReturnC(where, cc) ==
  IF cc = Unassigned THEN Finish("UnboundLocalError", where, Unassigned)
  ELSE Finish("return", where, cc)

\* How an iteration that generates no point ends the call.
FinishWithoutPoint(r) ==
  IF r.kind = "div_ba" THEN Finish("ZeroDivisionError", "slope", Unassigned)
  ELSE IF r.kind = "stagnation" THEN RaiseAlgorithmFailure("stagnation")
  ELSE IF r.kind = "degenerate" THEN ReturnC("degenerate", c)
  ELSE Finish("ZeroDivisionError", "new_point", Unassigned)

(***************************************************************************)
(* find_root_secant                                                        *)
(***************************************************************************)
\* `abs(b - a)`
Dist(x, y) == FAbs(FSub(y, x))

\* Ghost: one iteration of find_root or find_root_secant is recorded with
\* the mode it ran in, how it ended, use_bisection at its start, the
\* distance |b - a| at its classification (after a slope repair) and at
\* its end, the number of evaluations of f it made, the value of c it
\* left, the float `f_a * f_b` at its classification, and the larger of
\* |a| and |b| at its classification.
Iteration(m, v, w0, w1, bb, fb) ==
  [mode |-> m, verdict |-> v, ub |-> use_bisection, w0 |-> w0, w1 |-> w1,
   evals |-> calls' - calls, point |-> c', product |-> FMul(f_a, fb),
   mag |-> FMax(FAbs(a), FAbs(bb))]
Record(m, v, w0, w1, bb, fb) ==
  trail' = Append(trail, Iteration(m, v, w0, w1, bb, fb))

\* Lines 172-217: validation and the test of the starting points.
find_root_secant_start ==
  /\ pc = "start" /\ solver = "find_root_secant"
  /\ UNCHANGED <<params, a, b, c, f_c, use_bisection, c_prev, c_mode, gens>>
  /\ IF TolInvalid(xtol)
     THEN Finish("ValueError", "xtol", Unassigned)
          /\ NoEvaluations /\ UNCHANGED steps
     ELSE IF TolInvalid(ftol)
     THEN Finish("ValueError", "ftol", Unassigned)
          /\ NoEvaluations /\ UNCHANGED steps
     ELSE \E ya, yb \in fvals :
            LET t == InitialCheck(ya, yb) IN
            /\ steps' = 1
            /\ InitialEvaluations(ya, yb, t.evals)
            /\ IF t.exit = "reject"
               THEN Finish("ValueError", "a_b_within_xtol", Unassigned)
               ELSE IF t.exit = "a" THEN Finish("return", "init_a", a)
               ELSE IF t.exit = "b" THEN Finish("return", "init_b", b)
               ELSE Continue
  /\ RecordBracket
  /\ UNCHANGED trail

\* Lines 220-265: one iteration of the secant loop, and the return after it.
find_root_secant_loop ==
  /\ pc = "loop" /\ solver = "find_root_secant"
  /\ UNCHANGED <<params, use_bisection, f_a0, f_b0>>
  /\ \E r0 \in {SlopeStart(a, f_a, b, f_b)} :
     \E yr \in fvals :
     \E r \in {SlopeAfter(r0, a, f_a, yr)} :
       /\ DrawnRepair(r, yr)
       /\ IF EndsWithoutPoint(r, r.slope)
          THEN /\ fgraph' = GraphAfter(r, yr, Unassigned, Zero, FALSE)
               /\ calls' = calls + r.evals
               /\ b' = r.b /\ f_b' = r.f_b
               /\ FinishWithoutPoint(r)
               /\ UNCHANGED <<a, f_a, c, f_c, steps, c_prev, c_mode, gens>>
               /\ Record("secant", "no_point", Dist(a, r.b), Dist(a, r.b),
                         r.b, r.f_b)
          ELSE \E cc \in {NewPoint(r.b, r.f_b, r.slope)} :
               \E yc \in fvals :
               LET fc == yc IN
               /\ DrawnPoint(r, yr, cc, yc)
               /\ fgraph' = GraphAfter(r, yr, cc, yc, TRUE)
               /\ calls' = calls + r.evals + 1
               /\ c' = cc /\ f_c' = fc
               /\ c_prev' = r.b /\ c_mode' = "secant" /\ gens' = gens + 1
               /\ IF Converged(cc, fc, r.b)
                  THEN /\ ReturnC("converged", cc)
                       /\ b' = r.b /\ f_b' = r.f_b
                       /\ UNCHANGED <<a, f_a, steps>>
                       /\ Record("secant", "converged", Dist(a, r.b),
                                 Dist(a, r.b), r.b, r.f_b)
                  ELSE /\ steps' = steps + 1
                       /\ IF steps + 1 > max_steps
                          THEN /\ RaiseAlgorithmFailure("limit")
                               /\ b' = r.b /\ f_b' = r.f_b
                               /\ UNCHANGED <<a, f_a>>
                               /\ Record("secant", "limit", Dist(a, r.b),
                                         Dist(a, r.b), r.b, r.f_b)
                          ELSE /\ Continue
                               /\ a' = r.b /\ f_a' = r.f_b
                               /\ b' = cc /\ f_b' = fc
                               /\ Record("secant", "shifted",
                                         Dist(a, r.b), Dist(a', b'),
                                         r.b, r.f_b)
  /\ RecordBracket


(***************************************************************************)
(* find_root_Regula_Falsi                                                  *)
(***************************************************************************)
\* Lines 314-318: the tolerances are validated, then line 318 reads
\* `contraction_factor`, which is neither a parameter of
\* find_root_Regula_Falsi nor a global of the module: NameError.  Nothing
\* after line 318 is reachable.
find_root_Regula_Falsi_start ==
  /\ pc = "start" /\ solver = "find_root_Regula_Falsi"
  /\ UNCHANGED <<params, locals, fgraph, ghosts>>
  /\ IF TolInvalid(xtol) THEN Finish("ValueError", "xtol", Unassigned)
     ELSE IF TolInvalid(ftol) THEN Finish("ValueError", "ftol", Unassigned)
     ELSE Finish("NameError", "contraction_factor", Unassigned)

NextRegulaFalsi == find_root_Regula_Falsi_start
InitRegulaFalsi == Init /\ solver = "find_root_Regula_Falsi"
SpecRegulaFalsi == InitRegulaFalsi /\ [][NextRegulaFalsi]_vars

(***************************************************************************)
(* find_root                                                               *)
(***************************************************************************)
\* `not 0.5 <= contraction_factor <= 1.0`
ContractionFactorInvalid(cf) == ~(FLe(OneHalf, cf) /\ FLe(cf, Q(1)))

\* Variant of UseBisectionInvalid: only the type is tested.
UseBisectionInvalid_TypeOnly(u) == ~IsInt(u)

\* `not isinstance(use_bisection, int) or use_bisection < 0`
UseBisectionInvalid(u) == ~IsInt(u) \/ u[2] < 0

\* `if use_bisection`, for the integer the validation has let through.
Truthy(u) == u[2] # 0

\* `if use_bisection and f_a * f_b > 0.0`
BracketRequired(u, fa, fb) == Truthy(u) /\ NoBracket(fa, fb)

\* Bisection mode, `f_a * f_c < 0.0`: c replaces b (else a <- b, b <- c).
HybridBisectionReplacesB(fa, fc) == FLt(FMul(fa, fc), Zero)

\* Variant of Brackets: the test is `f_a * f_b > 0.0`.
Brackets_SameSign(fa, fb) == FLt(Zero, FMul(fa, fb))

\* `f_a * f_b < 0.0`: a and b bracket a root.
Brackets(fa, fb) == FLt(FMul(fa, fb), Zero)

\* `x_min < c < x_max`
Interior(cc, x, y) == FLt(FMin(x, y), cc) /\ FLt(cc, FMax(x, y))

\* `f_b * f_c >= 0.0`: b and c do not bracket, so c replaces b.
KeepsA(fb, fc) == FLe(Zero, FMul(fb, fc))

\* `max(a, b) - min(a, b)`
Width(x, y) == FSub(FMax(x, y), FMin(x, y))

\* Variant of TooSlow: the comparison is reversed.
TooSlow_Reversed(x, y, rng) ==
  FLt(Width(x, y), FMul(contraction_factor, rng))

\* `max(a, b) - min(a, b) > contraction_factor * x_rng`
TooSlow(x, y, rng) == FLt(FMul(contraction_factor, rng), Width(x, y))

\* Lines 808-865: validation, the test of the starting points and the
\* bracket precondition of a positive use_bisection.
find_root_start ==
  /\ pc = "start" /\ solver = "find_root"
  /\ UNCHANGED <<params, a, b, c, f_c, use_bisection, steps, c_prev, c_mode,
                 gens>>
  /\ IF TolInvalid(xtol)
     THEN Finish("ValueError", "xtol", Unassigned) /\ NoEvaluations
     ELSE IF TolInvalid(ftol)
     THEN Finish("ValueError", "ftol", Unassigned) /\ NoEvaluations
     ELSE IF ContractionFactorInvalid(contraction_factor)
     THEN Finish("ValueError", "contraction_factor", Unassigned)
          /\ NoEvaluations
     ELSE IF UseBisectionInvalid(use_bisection)
     THEN Finish("ValueError", "use_bisection", Unassigned) /\ NoEvaluations
     ELSE \E ya, yb \in fvals :
            LET t == InitialCheck(ya, yb) IN
            /\ InitialEvaluations(ya, yb, t.evals)
            /\ IF t.exit = "reject"
               THEN Finish("ValueError", "a_b_within_xtol", Unassigned)
               ELSE IF t.exit = "a" THEN Finish("return", "init_a", a)
               ELSE IF t.exit = "b" THEN Finish("return", "init_b", b)
               ELSE IF BracketRequired(use_bisection, ya, yb)
               THEN RaiseAlgorithmFailure("bracket")
               ELSE Continue
  /\ RecordBracket
  /\ UNCHANGED trail

\* Lines 869-872: the step limit, tested at the top of every iteration.
find_root_limit ==
  /\ pc = "loop" /\ solver = "find_root"
  /\ steps + 1 > max_steps
  /\ steps' = steps + 1
  /\ RaiseAlgorithmFailure("limit")
  /\ UNCHANGED <<params, a, b, f_a, f_b, c, f_c, calls, use_bisection,
                 fgraph, ghosts>>

\* Lines 869-898: an iteration in bisection mode.
find_root_bisection_mode ==
  /\ pc = "loop" /\ solver = "find_root"
  /\ steps + 1 <= max_steps
  /\ Truthy(use_bisection)
  /\ UNCHANGED <<params, f_a0, f_b0>>
  /\ \E y \in fvals :
     \E cc \in {Midpoint(a, b)} :
       LET fc == y IN
       /\ Consistent(fgraph, cc, y)
       /\ fgraph' = fgraph \cup {<<cc, y>>}
       /\ steps' = steps + 1
       /\ c' = cc /\ f_c' = fc /\ calls' = calls + 1
       /\ c_prev' = b /\ c_mode' = "bisection_mode" /\ gens' = gens + 1
       /\ IF HybridBisectionReplacesB(f_a, fc)
          THEN b' = cc /\ f_b' = fc /\ UNCHANGED <<a, f_a>>
          ELSE a' = b /\ f_a' = f_b /\ b' = cc /\ f_b' = fc
       /\ use_bisection' = PyInt(use_bisection[2] - 1)
       /\ Continue
       /\ Record("bisection_mode", "bisected", Width(a, b), Width(a', b'),
                 b, f_b)
  /\ RecordBracket

\* Lines 869-985: an iteration in Regula Falsi mode, and the return after
\* the loop.
find_root_regula_falsi_mode ==
  /\ pc = "loop" /\ solver = "find_root"
  /\ steps + 1 <= max_steps
  /\ ~Truthy(use_bisection)
  /\ UNCHANGED <<params, f_a0, f_b0>>
  /\ steps' = steps + 1
  /\ \E r0 \in {SlopeStart(a, f_a, b, f_b)} :
     \E yr \in fvals :
     \E r \in {SlopeAfter(r0, a, f_a, yr)} :
       /\ DrawnRepair(r, yr)
       /\ IF EndsWithoutPoint(r, r.slope)
          THEN /\ fgraph' = GraphAfter(r, yr, Unassigned, Zero, FALSE)
               /\ calls' = calls + r.evals
               /\ b' = r.b /\ f_b' = r.f_b
               /\ FinishWithoutPoint(r)
               /\ UNCHANGED <<a, f_a, c, f_c, use_bisection, c_prev, c_mode,
                              gens>>
               /\ Record("regula_falsi_mode", "no_point", Width(a, r.b),
                         Width(a, r.b), r.b, r.f_b)
          ELSE \E cc \in {NewPoint(r.b, r.f_b, r.slope)} :
               \E yc \in fvals :
               LET fc == yc IN
               /\ DrawnPoint(r, yr, cc, yc)
               /\ fgraph' = GraphAfter(r, yr, cc, yc, TRUE)
               /\ calls' = calls + r.evals + 1
               /\ c' = cc /\ f_c' = fc
               /\ c_prev' = r.b /\ c_mode' = "regula_falsi_mode"
               /\ gens' = gens + 1
               /\ IF Converged(cc, fc, r.b)
                  THEN /\ ReturnC("converged", cc)
                       /\ b' = r.b /\ f_b' = r.f_b
                       /\ UNCHANGED <<a, f_a, use_bisection>>
                       /\ Record("regula_falsi_mode", "converged",
                                 Width(a, r.b), Width(a, r.b),
                                 r.b, r.f_b)
                  ELSE /\ Continue
                       /\ IF Brackets(f_a, r.f_b)
                          THEN IF ~Interior(cc, a, r.b)
                               THEN /\ use_bisection' = PyInt(1)
                                    /\ b' = r.b /\ f_b' = r.f_b
                                    /\ UNCHANGED <<a, f_a>>
                                    /\ Record("regula_falsi_mode",
                                         "not_interior", Width(a, r.b),
                                         Width(a, r.b), r.b, r.f_b)
                               ELSE /\ IF KeepsA(r.f_b, fc)
                                       THEN UNCHANGED <<a, f_a>>
                                       ELSE a' = r.b /\ f_a' = r.f_b
                                    /\ b' = cc /\ f_b' = fc
                                    /\ \E slow \in {TooSlow(a', b',
                                                          Width(a, r.b))} :
                                         /\ use_bisection' =
                                              IF slow THEN PyInt(1)
                                              ELSE use_bisection
                                         /\ Record("regula_falsi_mode",
                                              IF slow THEN "too_slow"
                                              ELSE "contracted",
                                              Width(a, r.b), Width(a', b'),
                                              r.b, r.f_b)
                          ELSE /\ a' = r.b /\ f_a' = r.f_b
                               /\ b' = cc /\ f_b' = fc
                               /\ UNCHANGED use_bisection
                               /\ Record("regula_falsi_mode", "no_bracket",
                                         Width(a, r.b), Width(a', b'),
                                         r.b, r.f_b)
  /\ RecordBracket

NextFindRoot ==
  \/ find_root_start
  \/ find_root_limit
  \/ find_root_bisection_mode
  \/ find_root_regula_falsi_mode
InitFindRoot == Init /\ solver = "find_root"
SpecFindRoot == InitFindRoot /\ [][NextFindRoot]_vars

(***************************************************************************)
(* Any call of any of the four solvers.                                    *)
(***************************************************************************)
Next ==
  \/ find_root_bisection_start
  \/ find_root_bisection_loop
  \/ find_root_secant_start
  \/ find_root_secant_loop
  \/ find_root_Regula_Falsi_start
  \/ find_root_start
  \/ find_root_limit
  \/ find_root_bisection_mode
  \/ find_root_regula_falsi_mode

Spec == Init /\ [][Next]_vars

\* The calls of find_root_secant, and of find_root with use_bisection = 0.
NextSecantLike ==
  \/ find_root_secant_start
  \/ find_root_secant_loop
  \/ find_root_start
  \/ find_root_limit
  \/ find_root_bisection_mode
  \/ find_root_regula_falsi_mode
InitSecantLike ==
  /\ Init
  /\ solver \in {"find_root_secant", "find_root"}
  /\ use_bisection0 = PyInt(0)
SpecSecantLike == InitSecantLike /\ [][NextSecantLike]_vars

(***************************************************************************)
(* Vocabulary of the properties.                                           *)
(***************************************************************************)
Done == pc = "done"

\* The tolerance checks pass: neither `xtol <= 0.0` nor `ftol <= 0.0`.
ValidTolerances == ~TolInvalid(xtol) /\ ~TolInvalid(ftol)

\* The starting values differ by at most xtol.
StartWithinXtol == FLe(FAbs(FSub(b0, a0)), xtol)

\* The configuration errors of the call, as the specification lists them,
\* each by the test of the code: `xtol <= 0.0`, `ftol <= 0.0`,
\* `not 0.5 <= contraction_factor <= 1.0`, and use_bisection not an int or
\* negative.
InvalidConfiguration ==
  \/ FLe(xtol, Zero)
  \/ FLe(ftol, Zero)
  \/ /\ solver = "find_root"
     /\ \/ ~(FLe(OneHalf, contraction_factor) /\ FLe(contraction_factor, Q(1)))
        \/ ~IsInt(use_bisection0)
        \/ use_bisection0[2] < 0
  \/ /\ solver \in {"find_root_secant", "find_root"}
     /\ ~both
     /\ StartWithinXtol

\* f was evaluated at both starting values and `f_a * f_b > 0.0`: the
\* float product, which is 0.0 when it underflows.
SameSignStart ==
  IsNum(f_a0) /\ IsNum(f_b0) /\ FLt(Zero, FMul(f_a0, f_b0))

\* The stopping rule selected by `both`, for a point x with value fx
\* against the previous point.
StoppingRule(x, fx, prev) ==
  IF both
  THEN FLe(FAbs(FSub(x, prev)), xtol) /\ FLe(FAbs(fx), ftol)
  ELSE FLe(FAbs(FSub(x, prev)), xtol) \/ FLe(FAbs(fx), ftol)

(***************************************************************************)
(* C1.  In find_root_bisection, find_root_secant and find_root every       *)
(* invalid configuration (xtol <= 0, ftol <= 0, contraction_factor outside *)
(* [0.5, 1], use_bisection negative or not an integer, and with both=false *)
(* starting values within xtol for secant and find_root) ends the call     *)
(* with the configuration error, and every configuration error is raised   *)
(* before f has been evaluated: the call count is 0.                       *)
(***************************************************************************)
C1_ConfigErrorsBeforeEvaluation ==
  solver \in {"find_root_bisection", "find_root_secant", "find_root"} =>
    /\ (Done /\ outcome = "ValueError" => calls = 0 /\ fgraph = {})
    /\ (Done /\ InvalidConfiguration => outcome = "ValueError" /\ calls = 0)

\* find_root rejects starting values within xtol (both = false) without
\* having evaluated f.
C1_Witness ==
  /\ Done /\ solver = "find_root" /\ site = "a_b_within_xtol"
  /\ outcome = "ValueError" /\ calls = 0 /\ a0 # b0

(***************************************************************************)
(* C2.  find_root_bisection with valid tolerances fails with an            *)
(* AlgorithmFailure-class precondition error, after evaluating f exactly   *)
(* twice (at a and at b), whenever f(a)*f(b) > 0; when f(a)*f(b) <= 0 it   *)
(* never raises that error.                                                *)
(***************************************************************************)
C2_BisectionPreconditionError ==
  (solver = "find_root_bisection" /\ Done /\ ValidTolerances) =>
    /\ SameSignStart =>
         /\ outcome = "AlgorithmFailure" /\ site = "bracket"
         /\ calls = 2
         /\ fgraph = {<<a0, f_a0>>, <<b0, f_b0>>}
    /\ ~SameSignStart => site # "bracket"

(***************************************************************************)
(* C3.  find_root with a valid configuration, use_bisection > 0 and        *)
(* starting values with f(a)*f(b) > 0 always fails with the bracket        *)
(* precondition error and never returns a value, for both values of        *)
(* `both`; with use_bisection = 0 it never raises that error.              *)
(***************************************************************************)
C3_HybridPreconditionError ==
  (solver = "find_root" /\ Done /\ ~InvalidConfiguration) =>
    /\ (use_bisection0[2] > 0 /\ SameSignStart) =>
         outcome = "AlgorithmFailure" /\ site = "bracket"
    /\ use_bisection0 = PyInt(0) => site # "bracket"

(***************************************************************************)
(* C4.  Whenever a solver started on opposite-sign endpoints returns a     *)
(* value, the value satisfies the stopping rule selected by `both`         *)
(* relative to the previous point; no return path delivers a value that    *)
(* fails the rule.  A starting point is compared with the other starting   *)
(* point, c with the b of the iteration that generated it.                 *)
(***************************************************************************)
C4_EveryReturnMeetsRule ==
  (/\ Done /\ outcome = "return"
   /\ IsNum(f_a0) /\ IsNum(f_b0) /\ Sign(f_a0) * Sign(f_b0) < 0) =>
    IF site = "init_a" THEN StoppingRule(result, f_a, b)
    ELSE IF site = "init_b" THEN StoppingRule(result, f_b, a)
    ELSE StoppingRule(result, f_c, c_prev)

(***************************************************************************)
(* C5.  In all four solvers the convergence predicate is applied to every  *)
(* newly generated point c against the previous point b before any further *)
(* point is generated, so a solver returns at the first generated c that   *)
(* satisfies it, the points of find_root's bisection-mode iterations       *)
(* included.                                                               *)
(***************************************************************************)
C5_EveryPointDecides ==
  (IsNum(c) /\ StoppingRule(c, f_c, c_prev)) =>
    (Done /\ outcome = "return" /\ result = c)

\* C5 as amended: the points generated by find_root_bisection, by
\* find_root_secant and by the Regula Falsi iterations of find_root are each
\* tested before a further point is generated, and the first that satisfies
\* the predicate is returned; the points of find_root's bisection-mode
\* iterations are not tested.
C5_TestedPointDecides ==
  (IsNum(c) /\ c_mode # "bisection_mode" /\ StoppingRule(c, f_c, c_prev)) =>
    (Done /\ outcome = "return" /\ result = c)

\* find_root returns the third point it generated: a bisection-mode point
\* and a Regula Falsi point that failed the test came before it.
C5_Witness ==
  /\ Done /\ outcome = "return" /\ site = "converged" /\ result = c
  /\ solver = "find_root" /\ c_mode = "regula_falsi_mode"
  /\ use_bisection0 = PyInt(1) /\ gens = 3

(***************************************************************************)
(* C6.  For any f and any max_steps >= 0 a call executes at most max_steps *)
(* loop iterations, each generating one point c: it returns within them or *)
(* fails with the iteration-limit error, which a function that never       *)
(* converges gets after exactly max_steps iterations.                      *)
(***************************************************************************)
C6_AtMostMaxStepsIterations ==
  /\ gens <= max_steps
  /\ (Done /\ site = "limit") =>
       outcome = "AlgorithmFailure" /\ gens = max_steps

(***************************************************************************)
(* C8.  find_root_Regula_Falsi has the input contract of the secant        *)
(* solver: every call with xtol > 0 and ftol > 0 (and |b - a| > xtol when  *)
(* both = false) passes validation and goes on to evaluate f at the        *)
(* starting values.                                                        *)
(***************************************************************************)
C8_RegulaFalsiAcceptsSecantContract ==
  (solver = "find_root_Regula_Falsi" /\ Done /\ ValidTolerances
     /\ (both \/ ~StartWithinXtol)) =>
    /\ calls >= 1
    /\ fgraph # {}
    /\ site \notin {"xtol", "ftol", "contraction_factor", "use_bisection"}

(***************************************************************************)
(* C9.  In find_root_secant and find_root, when the slope is still below   *)
(* min_slope after the single repair of b, the solver fails with the       *)
(* near-zero-slope error if |b - a| > xtol and otherwise returns the       *)
(* repaired b, on every iteration, the first included.                     *)
(***************************************************************************)
C9_DegenerateSlopeOutcome ==
  (solver \in {"find_root_secant", "find_root"} /\ Done) =>
    /\ site = "stagnation" =>
         /\ outcome = "AlgorithmFailure"
         /\ ~FLe(FAbs(FSub(b, a)), xtol)
    /\ site = "degenerate" =>
         /\ outcome = "return" /\ result = b
         /\ FLe(FAbs(FSub(b, a)), xtol)

(***************************************************************************)
(* C10.  Every call of any solver ends in a returned estimate or in one of *)
(* the four documented failures: invalid configuration (ValueError), or    *)
(* precondition violation, numerical stagnation, iteration exhaustion (all *)
(* three of class AlgorithmFailure); no other failure is reachable.        *)
(***************************************************************************)
C10_OnlyDocumentedOutcomes ==
  Done => outcome \in {"return", "ValueError", "AlgorithmFailure"}

\* Iteration i of find_root made a bracketing update (c replaced an end of
\* a bracketing pair), and the distance |b - a| it left exceeds
\* contraction_factor times the distance it found, the product and the
\* comparison being those of line 966.
BracketingUpdate(i) == trail[i].verdict \in {"too_slow", "contracted"}
Exceeds(i) == FLt(FMul(contraction_factor, trail[i].w0), trail[i].w1)

(***************************************************************************)
(* C11.  In find_root, after a Regula Falsi iteration whose bracketing     *)
(* update leaves a width above contraction_factor times the previous       *)
(* width, use_bisection is 1, the next iteration is a bisection step and   *)
(* the one after it a Regula Falsi step; when the width is not above the   *)
(* threshold the next iteration is a Regula Falsi step.                    *)
(***************************************************************************)
C11_OneBisectionStepInserted ==
  \A i \in 1..Len(trail) :
    BracketingUpdate(i) =>
      IF Exceeds(i)
      THEN /\ (i = Len(trail) /\ pc = "loop") => use_bisection = PyInt(1)
           /\ i + 1 <= Len(trail) => trail[i + 1].mode = "bisection_mode"
           /\ i + 2 <= Len(trail) => trail[i + 2].mode = "regula_falsi_mode"
      ELSE /\ (i = Len(trail) /\ pc = "loop") => use_bisection = PyInt(0)
           /\ i + 1 <= Len(trail) => trail[i + 1].mode = "regula_falsi_mode"

\* A Regula Falsi iteration that left the bracket too wide was followed by
\* a bisection step and then by a Regula Falsi iteration.
C11_Witness ==
  /\ Len(trail) = 3
  /\ BracketingUpdate(1) /\ Exceeds(1)
  /\ trail[2].mode = "bisection_mode"
  /\ trail[3].mode = "regula_falsi_mode"

(***************************************************************************)
(* C12.  In find_root, once an iteration has started with f(a)*f(b) < 0    *)
(* (the starting pair included), every later iteration starts with         *)
(* f(a)*f(b) <= 0, whatever the mix of bisection-mode steps, Regula Falsi  *)
(* steps and slope repairs, and also when some point has f(c) = 0 without  *)
(* the run having converged.                                               *)
(***************************************************************************)
C12_HybridKeepsBracket ==
  (solver = "find_root" /\ pc = "loop" /\ bracketed) =>
    Sign(f_a) * Sign(f_b) <= 0

(***************************************************************************)
(* C13.  In find_root, a Regula Falsi iteration that starts on a           *)
(* bracketing pair of width w0, produces an interior c and does not        *)
(* converge either leaves a width <= contraction_factor * w0, or is        *)
(* followed by a bisection step after which the width is half the width    *)
(* the Regula Falsi iteration left, which is below w0 / 2.  The widths are *)
(* floats: "half" and "below" are read up to what the rounding of the      *)
(* float operations of the bisection step can add to a width, 2^-51 times  *)
(* the larger of |a| and |b| and two of the smallest positive float; the   *)
(* halves themselves are exact.                                            *)
(***************************************************************************)
C13_WidthContracts ==
  solver = "find_root" =>
    \A i \in 1..Len(trail) :
      (trail[i].mode = "regula_falsi_mode" /\ BracketingUpdate(i)) =>
        \/ FLe(trail[i].w1, FMul(contraction_factor, trail[i].w0))
        \/ /\ (i = Len(trail) /\ pc = "loop") => use_bisection = PyInt(1)
           /\ i + 1 <= Len(trail) =>
                LET rounding == XAdd(XMul(PowerOfTwo(-51), trail[i + 1].mag),
                                     PowerOfTwo(MinExponent + 1))
                IN  /\ trail[i + 1].mode = "bisection_mode"
                    /\ trail[i + 1].w0 = trail[i].w1
                    /\ FLe(FAbs(XSub(trail[i + 1].w1,
                                     XMul(OneHalf, trail[i].w1))), rounding)
                    /\ FLt(XSub(trail[i + 1].w1, rounding),
                           XMul(OneHalf, trail[i].w0))

\* use_bisection after iteration i of find_root: what the next iteration
\* started with, or the current value after the last iteration.
CountdownAfter(i) ==
  IF i < Len(trail) THEN trail[i + 1].ub ELSE use_bisection

\* The call has passed the validation of its arguments at lines 808-817.
Validated ==
  /\ pc # "start"
  /\ site \notin {"xtol", "ftol", "contraction_factor", "use_bisection"}

(***************************************************************************)
(* C14.  In find_root the countdown use_bisection of a call that passed    *)
(* validation is an integer >= 0; an iteration is a bisection step iff     *)
(* use_bisection > 0 at its start; a bisection step decrements it by 1,    *)
(* evaluates f once and neither tests convergence nor ends the call; a     *)
(* Regula Falsi step leaves it at 0 or sets it to 1; so with use_bisection *)
(* = N passed in, the first N iterations are bisection steps.              *)
(***************************************************************************)
C14_BisectionCountdown ==
  (solver = "find_root" /\ Validated) =>
    /\ IsInt(use_bisection0) /\ IsInt(use_bisection) /\ use_bisection[2] >= 0
    /\ \A i \in 1..Len(trail) :
         /\ IsInt(trail[i].ub)
         /\ trail[i].mode = "bisection_mode" <=> trail[i].ub[2] > 0
         /\ trail[i].mode = "bisection_mode" =>
              /\ CountdownAfter(i) = PyInt(trail[i].ub[2] - 1)
              /\ trail[i].evals = 1
              /\ trail[i].verdict = "bisected"
              /\ i = Len(trail) => (pc = "loop" \/ site = "limit")
         /\ trail[i].mode = "regula_falsi_mode" =>
              /\ trail[i].ub = PyInt(0)
              /\ CountdownAfter(i) \in {PyInt(0), PyInt(1)}
         /\ i <= use_bisection0[2] => trail[i].mode = "bisection_mode"

\* Called with use_bisection = 2, find_root made two bisection steps and
\* then a Regula Falsi step.
C14_Witness ==
  /\ solver = "find_root" /\ use_bisection0 = PyInt(2) /\ Len(trail) = 3
  /\ trail[1].mode = "bisection_mode" /\ trail[2].mode = "bisection_mode"
  /\ trail[3].mode = "regula_falsi_mode" /\ trail[3].ub = PyInt(0)

(***************************************************************************)
(* C15.  In find_root_bisection every loop iteration starts with           *)
(* f(a)*f(b) <= 0: the update keeps c as the new b together with one old   *)
(* endpoint, and the endpoint it drops never has a value of the sign       *)
(* opposite to f(c), also when f(c) or an endpoint value is exactly 0.     *)
(* The endpoint dropped is b when a is kept, a otherwise.                  *)
(***************************************************************************)
C15_BisectionKeepsBracket ==
  [][solver = "find_root_bisection" =>
       /\ pc' = "loop" => Sign(f_a') * Sign(f_b') <= 0
       /\ (pc = "loop" /\ site' # "converged") =>
            /\ b' = c' /\ f_b' = f_c'
            /\ a' \in {a, b}
            /\ Sign(f_a') * Sign(f_c') <= 0
            /\ Sign(IF a' = a THEN f_b ELSE f_a) * Sign(f_c') >= 0]_vars

(***************************************************************************)
(* find_root_secant as a function of its arguments and of the graph g of   *)
(* f: the end of the call on the arguments of the current call.  A point   *)
(* where g does not give f ends the computation with "unknown".            *)
(***************************************************************************)
Known(g, x) == \E p \in g : p[1] = x
ValueAt(g, x) ==
  IF Known(g, x) THEN (CHOOSE p \in g : p[1] = x)[2] ELSE Zero

End(k, w, v, st, n, pts) ==
  [outcome |-> k, site |-> w, result |-> v, steps |-> st, calls |-> n,
   points |-> pts]
UnknownEnd == End("unknown", "none", Unassigned, 0, 0, <<>>)

\* Lines 220-265: the loop, entered with the pair (aa, bb), the last point
\* cc, the counters st and n and the points pts generated so far.
RECURSIVE SecantLoop(_, _, _, _, _, _, _, _, _)
SecantLoop(g, aa, fa, bb, fb, cc, st, n, pts) ==
  LET r0 == SlopeStart(aa, fa, bb, fb)
      r == SlopeAfter(r0, aa, fa, ValueAt(g, r0.b))
      m == n + r.evals
      c1 == NewPoint(r.b, r.f_b, r.slope)
      fc == ValueAt(g, c1)
  IN
  IF r.evals = 1 /\ ~Known(g, r.b) THEN UnknownEnd
  ELSE IF r.kind = "div_ba"
  THEN End("ZeroDivisionError", "slope", Unassigned, st, m, pts)
  ELSE IF r.kind = "stagnation"
  THEN End("NameError", "stagnation", Unassigned, st, m, pts)
  ELSE IF r.kind = "degenerate"
  THEN IF cc = Unassigned
       THEN End("UnboundLocalError", "degenerate", Unassigned, st, m, pts)
       ELSE End("return", "degenerate", cc, st, m, pts)
  ELSE IF r.slope = Zero
  THEN End("ZeroDivisionError", "new_point", Unassigned, st, m, pts)
  ELSE IF ~Known(g, c1) THEN UnknownEnd
  ELSE IF Converged(c1, fc, r.b)
  THEN End("return", "converged", c1, st, m + 1, Append(pts, c1))
  ELSE IF st + 1 > max_steps
  THEN End("NameError", "limit", Unassigned, st + 1, m + 1, Append(pts, c1))
  ELSE SecantLoop(g, r.b, r.f_b, c1, fc, c1, st + 1, m + 1, Append(pts, c1))

\* Lines 172-265: the whole call.
SecantRun(g) ==
  LET t == InitialCheckAt(a0, b0, ValueAt(g, a0), ValueAt(g, b0)) IN
  IF TolInvalid(xtol) THEN End("ValueError", "xtol", Unassigned, 0, 0, <<>>)
  ELSE IF TolInvalid(ftol)
  THEN End("ValueError", "ftol", Unassigned, 0, 0, <<>>)
  ELSE IF t.exit = "reject"
  THEN End("ValueError", "a_b_within_xtol", Unassigned, 1, 0, <<>>)
  ELSE IF (t.evals >= 1 /\ ~Known(g, a0)) \/ (t.evals >= 2 /\ ~Known(g, b0))
  THEN UnknownEnd
  ELSE IF t.exit = "a" THEN End("return", "init_a", a0, 1, t.evals, <<>>)
  ELSE IF t.exit = "b" THEN End("return", "init_b", b0, 1, t.evals, <<>>)
  ELSE SecantLoop(g, a0, ValueAt(g, a0), b0, ValueAt(g, b0),
                  Unassigned, 1, 2, <<>>)

\* The points c generated by the iterations of the current call, in order.
RECURSIVE PointsFrom(_)
PointsFrom(i) ==
  IF i > Len(trail) THEN <<>>
  ELSE IF trail[i].verdict = "no_point" THEN PointsFrom(i + 1)
  ELSE <<trail[i].point>> \o PointsFrom(i + 1)
Points == PointsFrom(1)

\* The end of the current call, as SecantRun reports an end.
ThisEnd == End(outcome, site, result, steps, calls, Points)

\* The current call is a call of find_root with use_bisection = 0 and
\* max_steps >= 1 in which no iteration that reached the classification of
\* line 935 had a float product f_a * f_b < 0.
NeverBracketed ==
  /\ solver = "find_root" /\ use_bisection0 = PyInt(0) /\ max_steps >= 1
  /\ \A i \in 1..Len(trail) :
       trail[i].verdict \notin {"no_point", "converged"} =>
         ~FLt(trail[i].product, Zero)

\* SecantRun is find_root_secant: it ends as the call of the solver ends.
SecantRunIsSecant ==
  (solver = "find_root_secant" /\ Done) => SecantRun(fgraph) = ThisEnd

(***************************************************************************)
(* C16.  A call of find_root with use_bisection = 0 and max_steps >= 1 in  *)
(* which no pair has f(a)*f(b) < 0 at classification time ends as          *)
(* find_root_secant ends on the same arguments and the same f: the same    *)
(* points in the same order, the same returned value or failure, the same  *)
(* step count and the same call count.                                     *)
(***************************************************************************)
C16_HybridIsSecant ==
  /\ SecantRunIsSecant
  /\ (Done /\ NeverBracketed) => SecantRun(fgraph) = ThisEnd

\* find_root rejects the contraction_factor of the call, an argument
\* find_root_secant does not have.
FactorRejected ==
  ValidTolerances /\ ContractionFactorInvalid(contraction_factor)

\* C16 as amended: when the contraction_factor is one find_root accepts,
\* the points, the outcome and the call count are the same in every such
\* call, and the step count is the same whenever the call entered the loop;
\* a call that ends at the test of the starting values ends with steps = 1
\* in find_root_secant and steps = 0 in find_root.  A contraction_factor
\* outside [0.5, 1] ends find_root with the configuration error before f is
\* evaluated, whatever find_root_secant does on the other arguments.
C16_HybridIsSecantPastStart ==
  /\ SecantRunIsSecant
  /\ (Done /\ NeverBracketed) =>
       \E e \in {SecantRun(fgraph)} :
         IF FactorRejected
         THEN /\ outcome = "ValueError" /\ site = "contraction_factor"
              /\ calls = 0
         ELSE /\ [e EXCEPT !.steps = 0] = [ThisEnd EXCEPT !.steps = 0]
              /\ IF site \in {"init_a", "init_b", "a_b_within_xtol"}
                 THEN e.steps = 1 /\ steps = 0
                 ELSE e.steps = steps

\* find_root, never finding a bracket, returned the third point it
\* generated, after a slope repair, as find_root_secant does.
C16_Witness ==
  /\ Done /\ NeverBracketed /\ outcome = "return" /\ site = "converged"
  /\ Len(Points) = 3
  /\ \E i \in 1..Len(trail) : trail[i].evals = 2
  /\ SecantRun(fgraph) = ThisEnd

====
